---- MODULE Spec2Model ----
(***************************************************************************)
(* Model of mlmodels/dataloader.py: the DataLoader constructor (input      *)
(* interpretation, loader selection, naming, splitting, shaping) and       *)
(* get_data.  Python values are records of one shape, exceptions are       *)
(* records naming the exception type.                                       *)
(***************************************************************************)
EXTENDS Integers, Sequences, FiniteSets, TLC

VARIABLES
    spc,        \* position of the shaping run: "start" | "done"
    sself,      \* shaping run: the instance fields _interpret_output reads
    soutput,    \* shaping run: the `output` argument
    sinput,     \* shaping run: the `intermediate_output` argument
    sres,       \* shaping run: what _interpret_output did
    lpc,        \* position of the loading run: "start" | "done"
    lself,      \* loading run: the instance fields _load_data reads
    lloader,    \* loading run: the `loader` argument
    lenv,       \* loading run: what the callable resolver answers
    lres,       \* loading run: what _load_data did
    pc,         \* DataLoader instance: "new" | "ready" | "failed"
    given,      \* the constructor's arguments and its collaborators' answers
    self,       \* the instance's fields
    raised,     \* the exception the constructor raised
    ret         \* what the last get_data call returned

vars == <<spc, sself, soutput, sinput, sres, lpc, lself, lloader, lenv, lres,
          pc, given, self, raised, ret>>

-----------------------------------------------------------------------------
(* Bounds of the model *)

MaxRows == 2
MaxCols == 2
MaxLen == 2

-----------------------------------------------------------------------------
(* Python values *)

Min(a, b) == IF a < b THEN a ELSE b
Max(a, b) == IF a > b THEN a ELSE b

Val(kind, n, items, keys, trail) ==
    [kind |-> kind, n |-> n, items |-> items, keys |-> keys, trail |-> trail]

None == Val("None", 0, <<>>, <<>>, <<>>)
IntV(i) == Val("int", i, <<>>, <<>>, <<>>)
StrV(k) == Val("str", 0, <<>>, <<k>>, <<>>)
ListV(items) == Val("list", 0, items, <<>>, <<>>)
TupleV(items) == Val("tuple", 0, items, <<>>, <<>>)
DictV(keys, items) == Val("dict", 0, items, keys, <<>>)
\* a numpy array: its rows are its items, trail is shape[1:]
ArrV(items, trail) == Val("arr", 0, items, <<>>, trail)
Arr1(base, len) == ArrV([i \in 1..len |-> IntV(base + i)], <<>>)
Arr2(base, rows, cols) ==
    ArrV([r \in 1..rows |-> Arr1(base + 10 * r, cols)], <<cols>>)

Key(name) == [name |-> name, suffix |-> ""]
Suffixed(k, s) == [name |-> k.name, suffix |-> k.suffix \o s]

IsNone(v) == v.kind = "None"
HasShape(v) == v.kind \in {"arr", "df"}
ShapeOf(v) == <<Len(v.items)>> \o v.trail
HasLen(v) == v.kind \in {"arr", "df", "list", "tuple", "dict", "str"}
LenOf(v) == Len(v.items)
Sliceable(v) == v.kind \in {"arr", "df", "list", "tuple", "str"}
Iterable(v) == v.kind \in {"arr", "list", "tuple", "dict"}
\* what iterating a value yields: rows, elements, or a mapping's keys
IterOf(v) ==
    IF v.kind = "dict" THEN [i \in 1..Len(v.keys) |-> StrV(v.keys[i])]
    ELSE v.items

\* an optional integer: None or v
NoInt == [none |-> TRUE, v |-> 0]
SomeInt(i) == [none |-> FALSE, v |-> i]

\* s[0:m]
Take(s, m) ==
    IF m.none THEN s
    ELSE IF m.v >= 0 THEN SubSeq(s, 1, Min(m.v, Len(s)))
    ELSE SubSeq(s, 1, Max(Len(s) + m.v, 0))

SliceTo(v, m) == [v EXCEPT !.items = Take(v.items, m)]

-----------------------------------------------------------------------------
(* Exceptions *)

\* a shape as OutputShapeError carries it: flat (d1, d2) or a tuple of shapes
Dim(nested, dims) == [nested |-> nested, dims |-> dims]
NoDim == Dim(FALSE, <<>>)
FlatDim(d) == Dim(FALSE, <<d>>)

Exc(type, specified, actual) ==
    [type |-> type, specified |-> specified, actual |-> actual]
NoExc == Exc("none", NoDim, NoDim)
Err(type) == Exc(type, NoDim, NoDim)
OutputShapeError(specified, actual) == Exc("OutputShapeError", specified, actual)
Unsupported == Err("Exception: Input format not supported for the specified output format")

Ok(v) == [exc |-> NoExc, val |-> v]
Fail(e) == [exc |-> e, val |-> None]

-----------------------------------------------------------------------------
(* The output configuration (the `output` dict) *)

NoShape == [none |-> TRUE, nested |-> FALSE, dims |-> <<>>]
FlatShape(d) == [none |-> FALSE, nested |-> FALSE, dims |-> <<d>>]
NestedShape(ds) == [none |-> FALSE, nested |-> TRUE, dims |-> ds]
\* tuple(shape)
ShapeTuple(shape) == Dim(shape.nested, shape.dims)

NoPath == [kind |-> "None", s |-> "", l |-> <<>>]
StrPath(p) == [kind |-> "str", s |-> p, l |-> <<>>]
ListPath(ps) == [kind |-> "list", s |-> "", l |-> ps]

\* the paths a write succeeds on; on any other path the write raises
WritablePaths == {"out", "out0", "out1"}
CanWrite(p) == p \in WritablePaths

\* len(output): the keys holding a value, plus the keys holding None or
\* not read by the shaper
LenOutput(output) ==
    (IF output.out_max_len.none THEN 0 ELSE 1)
    + (IF output.shape.none THEN 0 ELSE 1)
    + (IF output.path.kind = "None" THEN 0 ELSE 1)
    + (IF output.format = "None" THEN 0 ELSE 1)
    + output.extra

-----------------------------------------------------------------------------
(* DataLoader._interpret_output *)

\* lines 242-243
Unwrap(output, io) ==
    IF io.kind = "list" /\ LenOutput(output) = 1
    THEN IF io.items = <<>> THEN Fail(Err("IndexError")) ELSE Ok(io.items[1])
    ELSE Ok(io)

\* lines 249-259; -1 stands for the IndexError on an empty tuple or mapping
CaseOf(io) ==
    IF io.kind = "tuple"
    THEN IF io.items = <<>> THEN -1
         ELSE IF io.items[1].kind # "dict" THEN 1 ELSE 2
    ELSE IF io.kind = "dict"
    THEN IF io.items = <<>> THEN -1
         ELSE IF io.items[1].kind # "dict" THEN 3 ELSE 4
    ELSE 0

AllSliceable(items) == \A i \in 1..Len(items) : Sliceable(items[i])
SliceEach(items, m) == [i \in 1..Len(items) |-> SliceTo(items[i], m)]

\* lines 262-273: a failing slice leaves the whole value as it was
Truncate(case, max_len, io) ==
    IF case = 0
    THEN IF Sliceable(io) THEN SliceTo(io, max_len) ELSE io
    ELSE IF case = 1
    THEN IF AllSliceable(io.items) THEN ListV(SliceEach(io.items, max_len)) ELSE io
    ELSE IF case = 3
    THEN IF AllSliceable(io.items) THEN DictV(io.keys, SliceEach(io.items, max_len)) ELSE io
    ELSE io

\* zip(shape, outputs): the declarations zip pairs with the outputs
ZipDecls(shape) == IF shape.nested THEN shape.dims ELSE
    [i \in 1..Len(shape.dims[1]) |-> <<shape.dims[1][i]>>]
\* lines 285-287 and 289-291: the first pair that fails decides
ZipMismatch(shape, items, i) ==
    /\ i <= Min(Len(ZipDecls(shape)), Len(items))
    /\ HasShape(items[i])
    /\ (~shape.nested \/ shape.dims[i] # items[i].trail)
ZipCheck(shape, items) ==
    LET bad == {i \in 1..Len(items) : ZipMismatch(shape, items, i)} IN
    IF bad = {} THEN NoExc
    ELSE LET i == CHOOSE j \in bad : \A k \in bad : j <= k IN
         IF ~shape.nested THEN Err("TypeError")
         ELSE OutputShapeError(FlatDim(shape.dims[i]), FlatDim(items[i].trail))

\* lines 276-291
Case0Mismatch(shape, io) ==
    HasShape(io) /\ (shape.nested \/ shape.dims[1] # ShapeOf(io))
ShapeCheck(case, shape, io) ==
    IF shape.none THEN NoExc
    ELSE IF case = 0
    THEN IF Case0Mismatch(shape, io)
         THEN OutputShapeError(ShapeTuple(shape), FlatDim(io.trail))
         ELSE NoExc
    ELSE IF case = 1 \/ case = 3 THEN ZipCheck(shape, io.items)
    ELSE NoExc

AllArr(items) == \A i \in 1..Len(items) : items[i].kind = "arr"
Write(p, how, v) == [path |-> p, how |-> how, val |-> v]

\* lines 296-310
PersistOne(p, io) ==
    IF io.kind = "dict" /\ AllArr(io.items)
    THEN [exc |-> Err("TypeError"), writes |-> <<>>]
    ELSE IF ~CanWrite(p) THEN [exc |-> Err("OSError"), writes |-> <<>>]
    ELSE [exc |-> NoExc,
          writes |-> << Write(p,
                IF io.kind = "arr" THEN "np.save"
                ELSE IF io.kind = "df" THEN "to_csv"
                ELSE IF io.kind = "tuple" /\ AllArr(io.items) THEN "np.savez"
                ELSE "pickle.dump", io) >>]

\* lines 315-324, one pair (p, f): does it write, and how
EachWrites(p, f) ==
    /\ f.kind \notin {"arr", "df"}
    /\ CanWrite(p)
EachHow(f) == IF f.kind = "list" /\ AllArr(f.items) THEN "np.savez" ELSE "pickle.dump"
\* lines 313-326: the pairs before the first failing one are written
PersistEach(paths, io) ==
    IF ~Iterable(io) THEN <<>>
    ELSE LET fs == IterOf(io)
             n == Min(Len(paths), Len(fs))
             stop == {i \in 1..n : ~EachWrites(paths[i], fs[i])}
             last == IF stop = {} THEN n
                     ELSE (CHOOSE j \in stop : \A k \in stop : j <= k) - 1
         IN [i \in 1..last |-> Write(paths[i], EachHow(fs[i]), fs[i])]

\* lines 295-326
Persist(path, io) ==
    IF path.kind = "str" THEN PersistOne(path.s, io)
    ELSE IF path.kind = "list" THEN [exc |-> NoExc, writes |-> PersistEach(path.l, io)]
    ELSE [exc |-> NoExc, writes |-> <<>>]

\* tuple(x for x in tuple(intermediate_output.values()))
ValuesTuple(io) == TupleV(io.items)
\* tuple(zip(*outputs))
AllIterable(items) == \A i \in 1..Len(items) : Iterable(items[i])
MinLen(items) ==
    IF items = <<>> THEN 0
    ELSE CHOOSE n \in {Len(IterOf(items[i])) : i \in 1..Len(items)} :
            \A i \in 1..Len(items) : n <= Len(IterOf(items[i]))
Zipped(items) ==
    TupleV([r \in 1..MinLen(items) |->
                TupleV([i \in 1..Len(items) |-> IterOf(items[i])[r]])])

TfDataset(io) == Val("tfDataset", 0, <<io>>, <<>>, <<>>)
TensorDataset(tensors) == Val("tchDataset", 0, tensors, <<>>, <<>>)
batch_generator(iterable, n) == Val("generator", n, <<iterable>>, <<>>, <<>>)

\* lines 331-340
FormatTf(case, io) ==
    IF case = 2 \/ case = 4 THEN Fail(Unsupported)
    ELSE Ok(TfDataset(IF case = 3 THEN ValuesTuple(io) ELSE io))

\* FormatTch with the Case 4 test left out
FormatTchCase2Only(case, io) ==
    IF case = 2 THEN Fail(Unsupported)
    ELSE IF case = 1 THEN Ok(TensorDataset(<<io>>))
    ELSE LET x == IF case = 3 THEN ValuesTuple(io) ELSE io IN
         IF Iterable(x) THEN Ok(TensorDataset(IterOf(x))) ELSE Fail(Err("TypeError"))

\* lines 341-353
FormatTch(case, io) ==
    IF case = 2 \/ case = 4 THEN Fail(Unsupported)
    ELSE IF case = 1 THEN Ok(TensorDataset(<<io>>))
    ELSE LET x == IF case = 3 THEN ValuesTuple(io) ELSE io IN
         IF Iterable(x) THEN Ok(TensorDataset(IterOf(x))) ELSE Fail(Err("TypeError"))

\* lines 354-368; self.batch_size exists only when the generator flag was set
FormatGenerator(slf, case, io) ==
    IF case = 2 \/ case = 4 THEN Fail(Unsupported)
    ELSE IF ~slf.has_batch_size THEN Fail(Err("AttributeError"))
    ELSE IF case = 0 THEN Ok(batch_generator(io, slf.batch_size))
    ELSE IF AllIterable(io.items)
         THEN Ok(batch_generator(Zipped(io.items), slf.batch_size))
         ELSE Fail(Err("TypeError"))

\* lines 329-370
Reformat(slf, case, format, io) ==
    IF format = "tfDataset" THEN FormatTf(case, io)
    ELSE IF format = "tchDataset" THEN FormatTch(case, io)
    ELSE IF format = "generic_generator" THEN FormatGenerator(slf, case, io)
    ELSE Ok(io)

Shaped(exc, val, writes, case) ==
    [exc |-> exc, val |-> val, writes |-> writes, case |-> case]

\* lines 241-370
_interpret_output(slf, output, intermediate_output) ==
    LET u == Unwrap(output, intermediate_output) IN
    IF u.exc # NoExc THEN Shaped(u.exc, None, <<>>, -1)
    ELSE
    LET case == CaseOf(u.val) IN
    IF case = -1 THEN Shaped(Err("IndexError"), None, <<>>, -1)
    ELSE
    LET t == Truncate(case, output.out_max_len, u.val)
        s == ShapeCheck(case, output.shape, t)
    IN
    IF s # NoExc THEN Shaped(s, None, <<>>, case)
    ELSE
    LET p == Persist(output.path, t) IN
    IF p.exc # NoExc THEN Shaped(p.exc, None, p.writes, case)
    ELSE
    LET f == Reformat(slf, case, output.format, t) IN
    Shaped(f.exc, f.val, p.writes, case)

-----------------------------------------------------------------------------
(* The values and configurations the runs draw from *)

Leaves ==
    {IntV(7)}
    \cup {Arr1(0, n) : n \in 1..MaxRows}
    \cup {Arr2(100, n, MaxCols) : n \in 1..MaxRows}
Group == DictV(<<Key("x")>>, <<Arr1(0, 1)>>)
KeyA == Key("a")
KeyB == Key("b")
KeyC == Key("c")

Case0Values == Leaves \cup {ListV(<<>>)} \cup {ListV(<<x>>) : x \in Leaves}
Case1Values ==
    {TupleV(<<x>>) : x \in Leaves} \cup {TupleV(<<x, y>>) : x, y \in Leaves}
Case2Values ==
    {TupleV(<<Group>>)} \cup {TupleV(<<Group, x>>) : x \in Leaves \cup {Group}}
Case3Values ==
    {DictV(<<KeyA>>, <<x>>) : x \in Leaves}
    \cup {DictV(<<KeyA, KeyB>>, <<x, y>>) : x, y \in Leaves}
Case4Values ==
    {DictV(<<KeyA>>, <<Group>>)}
    \cup {DictV(<<KeyA, KeyB>>, <<Group, x>>) : x \in Leaves \cup {Group}}
EmptyValues == {TupleV(<<>>), DictV(<<>>, <<>>)}
Values ==
    Case0Values \cup Case1Values \cup Case2Values \cup Case3Values
    \cup Case4Values \cup EmptyValues

MaxLens == {NoInt} \cup {SomeInt(i) : i \in -1..MaxLen}
Trails == {<<>>, <<MaxCols>>}
Shapes ==
    {NoShape, FlatShape(<<MaxCols>>)}
    \cup {FlatShape(<<r, MaxCols>>) : r \in 1..MaxRows}
    \cup {NestedShape(<<t>>) : t \in Trails}
    \cup {NestedShape(<<t, u>>) : t, u \in Trails}
Paths ==
    {NoPath, StrPath("out"), StrPath("missing/out"),
     ListPath(<<"out0", "out1">>)}
Formats == {"None", "tfDataset", "tchDataset", "generic_generator"}

Output(max_len, shape, path, format, extra) ==
    [out_max_len |-> max_len, shape |-> shape, path |-> path,
     format |-> format, extra |-> extra]
Outputs ==
    {Output(m, s, p, f, e) : m \in MaxLens, s \in Shapes, p \in Paths,
                             f \in Formats, e \in {0, 1}}
NoOutput == Output(NoInt, NoShape, NoPath, "None", 0)

ShaperSelf(has, n) == [has_batch_size |-> has, batch_size |-> n]
NotShaped == Shaped(NoExc, None, <<>>, -1)

-----------------------------------------------------------------------------
(* A run of _interpret_output alone *)

ShapeIdle ==
    /\ spc = "idle"
    /\ sself = ShaperSelf(TRUE, 1)
    /\ soutput = NoOutput
    /\ sinput = None
    /\ sres = NotShaped
shapeVars == <<spc, sself, soutput, sinput, sres>>

\* the fields a run does not read are held at one value
ShapeInit ==
    /\ spc = "start"
    /\ sinput \in Values
    /\ soutput \in Outputs
    /\ (sinput.kind # "list" => soutput.extra = 0)
    /\ sself \in {ShaperSelf(h, 1) : h \in BOOLEAN}
    /\ (soutput.format # "generic_generator" => sself.has_batch_size)
    /\ sres = NotShaped

Shape ==
    /\ spc = "start"
    /\ sres' = _interpret_output(sself, soutput, sinput)
    /\ spc' = "done"
    /\ UNCHANGED <<sself, soutput, sinput>>

-----------------------------------------------------------------------------
(* Locations *)

\* a location string, by what the file system and urlparse say of it
Location(isfile, isdir, isurl, ext, slash) ==
    [isfile |-> isfile, isdir |-> isdir, isurl |-> isurl, ext |-> ext,
     slash |-> slash]
CsvFile == Location(TRUE, FALSE, FALSE, ".csv", FALSE)
ImageDir == Location(FALSE, TRUE, FALSE, "", FALSE)
CsvUrl == Location(FALSE, FALSE, TRUE, ".csv", FALSE)
DirUrl == Location(FALSE, FALSE, TRUE, "", TRUE)
Nowhere == Location(FALSE, FALSE, FALSE, "", FALSE)

-----------------------------------------------------------------------------
(* The callable resolver and the loader configuration *)

\* keyword arguments: a set of <<name, value>> pairs; a later pair replaces
\* an earlier one of the same name (dict.update)
Update(a, b) == {p \in a : \A q \in b : q[1] # p[1]} \cup b
Unbound == [bound |-> FALSE, kw |-> {}]
Bound(kw) == [bound |-> TRUE, kw |-> kw]

\* {"uri": ..., "arg": ...}
Ref(has_uri, uri, has_arg, arg) ==
    [has_uri |-> has_uri, uri |-> uri, has_arg |-> has_arg, arg |-> arg]

\* what a symbolic reference names; the references of no entry name nothing
Resolvable ==
    {"pandas::read_csv", "numpy::load", "dataloader::open_read",
     "dataloader::pickle_load", "dataloader::image_dir_load",
     "sklearn.model_selection::train_test_split",
     "user::load", "user::constant"}
Callables ==
    {"pandas::read_csv", "numpy::load", "dataloader::open_read",
     "dataloader::pickle_load", "dataloader::image_dir_load",
     "sklearn.model_selection::train_test_split", "user::load"}

Resolved(exc, fn, has_args, kw) ==
    [exc |-> exc, fn |-> fn, has_args |-> has_args, args |-> kw]
\* util.load_callable_from_dict: the callable a reference names and its
\* static arguments; env says what it answers where its contract is silent
load_callable_from_dict(ref, env) ==
    IF ~ref.has_uri THEN Resolved(Err("KeyError"), "", FALSE, {})
    ELSE IF ref.uri \notin Resolvable
    THEN Resolved(Err("ImportError"), "", FALSE, {})
    ELSE IF ref.uri \notin Callables /\ env.checks_callable
    THEN Resolved(Err("TypeError"), "", FALSE, {})
    ELSE IF ref.has_arg THEN Resolved(NoExc, ref.uri, TRUE, ref.arg)
    ELSE Resolved(NoExc, ref.uri, env.default_args_is_dict, {})

\* lines 98-105
DefaultFileTypes == {".csv", ".txt", ".npy", ".npz", ".pkl", "image_dir"}
default_loaders(file_type) ==
    CASE file_type = ".csv" -> Ref(TRUE, "pandas::read_csv", FALSE, {})
      [] file_type = ".txt" -> Ref(TRUE, "dataloader::open_read", FALSE, {})
      [] file_type = ".npy" -> Ref(TRUE, "numpy::load", FALSE, {})
      [] file_type = ".npz" -> Ref(TRUE, "np::.load", TRUE, {<<"allow_pickle", 1>>})
      [] file_type = ".pkl" -> Ref(TRUE, "dataloader::pickle_load", FALSE, {})
      [] file_type = "image_dir" -> Ref(TRUE, "dataloader::image_dir_load", FALSE, {})

\* loader["data_loader"]: absent, a (function, args) pair, or a mapping
NoLoader == [form |-> "None", fn |-> "", args |-> {}, ref |-> Ref(FALSE, "", FALSE, {})]
PairLoader(fn, kw) == [form |-> "tuple", fn |-> fn, args |-> kw, ref |-> Ref(FALSE, "", FALSE, {})]
RefLoader(ref) == [form |-> "dict", fn |-> "", args |-> {}, ref |-> ref]

-----------------------------------------------------------------------------
(* DataLoader._load_data *)

Selected(exc, fn, largs, defaults) ==
    [exc |-> exc, fn |-> fn, largs |-> largs, defaults |-> defaults]

\* lines 210-216; a failure of any kind in the block is reported as
\* InvalidDataLoaderFunctionError
ResolveLoader(ref, largs, env, defaults) ==
    LET r == load_callable_from_dict(ref, env) IN
    IF r.exc # NoExc THEN Selected(Err("InvalidDataLoaderFunctionError"), "", largs, defaults)
    ELSE IF r.has_args /\ ~largs.bound
    THEN Selected(Err("InvalidDataLoaderFunctionError"), "", largs, defaults)
    ELSE IF r.fn \notin Callables
    THEN Selected(Err("InvalidDataLoaderFunctionError"), "", largs, defaults)
    ELSE Selected(NoExc, r.fn,
                  IF r.has_args THEN Bound(Update(largs.kw, r.args)) ELSE largs,
                  defaults)

\* lines 196-216
SelectLoader(slf, data_loader, env) ==
    IF data_loader.form = "tuple"
    THEN Selected(NoExc, data_loader.fn, Bound(data_loader.args), FALSE)
    ELSE IF data_loader.form = "None" \/ ~data_loader.ref.has_uri
    THEN IF slf.file_type \notin DefaultFileTypes
         THEN Selected(Err("UndeterminableDataLoaderError"), "", Unbound, TRUE)
         ELSE ResolveLoader(default_loaders(slf.file_type),
                  Bound(IF data_loader.form # "None" /\ data_loader.ref.has_arg
                        THEN data_loader.ref.arg ELSE {}),
                  env, TRUE)
    ELSE ResolveLoader(data_loader.ref, Unbound, env, FALSE)

Loaded(exc, sel, called, fn, loc, kw, data) ==
    [exc |-> exc, sel |-> sel, called |-> called, fn |-> fn, loc |-> loc,
     kw |-> kw, data |-> data]
LoadFailed(e, sel) == Loaded(e, sel, FALSE, "", Nowhere, {}, None)

\* lines 219-224
WithChunksize(slf, loader, sel) ==
    IF slf.generator /\ slf.file_type = "csv" /\ sel.fn = "pandas::read_csv"
    THEN Update(sel.largs.kw,
                {<<"chunksize", IF loader.has_chunksize THEN loader.chunksize
                                ELSE slf.batch_size>>})
    ELSE sel.largs.kw

\* line 235-239: the call of the loader function on the location
CallLoader(slf, sel, loc, kw, env) ==
    IF sel.fn \notin Callables THEN LoadFailed(Err("TypeError"), sel)
    ELSE Loaded(NoExc, sel, TRUE, sel.fn, loc, kw,
                IF slf.file_type = "npz" /\ sel.fn = "numpy::load"
                THEN ListV(env.data.items) ELSE env.data)

\* lines 195-239
_load_data(slf, loader, env) ==
    LET sel == SelectLoader(slf, loader.data_loader, env) IN
    IF sel.exc # NoExc THEN LoadFailed(sel.exc, sel)
    ELSE IF slf.path_type = "file"
    THEN IF ~sel.largs.bound THEN LoadFailed(Err("UnboundLocalError"), sel)
         ELSE CallLoader(slf, sel, slf.path, WithChunksize(slf, loader, sel), env)
    ELSE IF slf.path_type = "url"
    THEN IF slf.file_type = "csv" /\ sel.fn = "pandas::read_csv"
         THEN LoadFailed(Err("UnboundLocalError"), sel)
         ELSE LoadFailed(Err("NameError"), sel)
    ELSE LoadFailed(Err("UnboundLocalError"), sel)

-----------------------------------------------------------------------------
(* A run of _load_data alone *)

PathTypes == {"file", "dir", "url"}
FileTypes == {".csv", "csv", ".npz", "npz", ".bin"}
StaticArgs == {{}, {<<"sep", 59>>}}
LoaderFns == {"pandas::read_csv", "numpy::load", "user::load", "user::constant"}
LoaderUris == {"pandas::read_csv", "user::load", "user::constant", "user::missing"}
DataLoaders ==
    {NoLoader}
    \cup {PairLoader(f, a) : f \in LoaderFns, a \in StaticArgs}
    \cup {RefLoader(Ref(FALSE, "", FALSE, {})),
          RefLoader(Ref(FALSE, "", TRUE, {<<"sep", 59>>}))}
    \cup {RefLoader(Ref(TRUE, u, FALSE, {})) : u \in LoaderUris}
    \cup {RefLoader(Ref(TRUE, u, TRUE, a)) : u \in LoaderUris, a \in StaticArgs}
Loader(dl, has_chunksize, chunksize) ==
    [data_loader |-> dl, has_chunksize |-> has_chunksize, chunksize |-> chunksize]
Loaders ==
    {Loader(dl, FALSE, 0) : dl \in DataLoaders}
    \cup {Loader(dl, TRUE, 5) : dl \in DataLoaders}
LoadEnv(checks, dflt, data) ==
    [checks_callable |-> checks, default_args_is_dict |-> dflt, data |-> data]
LoadEnvs ==
    {LoadEnv(c, d, Arr2(100, MaxRows, MaxCols)) : c, d \in BOOLEAN}
LoaderSelf(path, path_type, file_type, generator, batch_size) ==
    [path |-> path, path_type |-> path_type, file_type |-> file_type,
     generator |-> generator, batch_size |-> batch_size]
NotSelected == Selected(NoExc, "", Unbound, FALSE)
NotLoaded == LoadFailed(NoExc, NotSelected)

LoadIdle ==
    /\ lpc = "idle"
    /\ lself = LoaderSelf(CsvFile, "file", ".csv", FALSE, 1)
    /\ lloader = Loader(NoLoader, FALSE, 0)
    /\ lenv = LoadEnv(TRUE, TRUE, None)
    /\ lres = NotLoaded
loadVars == <<lpc, lself, lloader, lenv, lres>>

LoadInit ==
    /\ lpc = "start"
    /\ lself \in {LoaderSelf(CsvFile, pt, ft, g, 1) :
                    pt \in PathTypes, ft \in FileTypes, g \in BOOLEAN}
    /\ lloader \in Loaders
    /\ lenv \in LoadEnvs
    /\ lres = NotLoaded

Load ==
    /\ lpc = "start"
    /\ lres' = _load_data(lself, lloader, lenv)
    /\ lpc' = "done"
    /\ UNCHANGED <<lself, lloader, lenv>>

-----------------------------------------------------------------------------
(* The input configuration (the `input_pars` dict) *)

\* test_size: None, or q / Den
Den == 4
NoSize == [none |-> TRUE, q |-> 0]
Size(q) == [none |-> FALSE, q |-> q]

\* an index into the intermediate value: a mapping key or a position
KeySel(k) == [is_key |-> TRUE, key |-> k, idx |-> 0]
IdxSel(i) == [is_key |-> FALSE, key |-> Key(""), idx |-> i]
\* an optional list
NoList == [none |-> TRUE, l |-> <<>>]
SomeList(l) == [none |-> FALSE, l |-> l]

InputPars(has_path, path, path_type, file_type, test_size, generator, batch_size_ok, batch_size, names, split_outputs, misc_outputs) ==
    [has_path |-> has_path, path |-> path, path_type |-> path_type,
     file_type |-> file_type, test_size |-> test_size,
     generator |-> generator, batch_size_ok |-> batch_size_ok,
     batch_size |-> batch_size, names |-> names,
     split_outputs |-> split_outputs, misc_outputs |-> misc_outputs]

\* lines 185-188
validation_split_function ==
    [ref |-> Ref(TRUE, "sklearn.model_selection::train_test_split", FALSE, {}),
     size_arg |-> "test_size"]

-----------------------------------------------------------------------------
(* The instance *)

NewSelf ==
    [intermediate_output |-> None, intermediate_output_split |-> None,
     final_output |-> None, final_output_split |-> None,
     interpreted |-> FALSE,
     path |-> Nowhere, path_type |-> "None", file_type |-> "None",
     test_size |-> NoSize, generator |-> FALSE,
     has_batch_size |-> FALSE, batch_size |-> 0,
     _names |-> NoList, split_outputs |-> NoList, misc_outputs |-> NoList,
     loaded |-> NotLoaded, writes |-> <<>>]

-----------------------------------------------------------------------------
(* DataLoader._interpret_input_pars *)

\* lines 145-161
PathType(input_pars) ==
    IF input_pars.path_type = "None"
    THEN IF input_pars.path.isurl THEN "url"
         ELSE IF input_pars.path.isdir THEN "dir"
         ELSE IF input_pars.path.isfile THEN "file"
         ELSE "None"
    ELSE input_pars.path_type

\* lines 163-172; "AttributeError" stands for the os.path.splittext lookup
FileType(input_pars, path_type) ==
    IF input_pars.file_type # "None" THEN Ok(StrV(Key(input_pars.file_type)))
    ELSE IF path_type = "dir" THEN Ok(StrV(Key("image_dir")))
    ELSE IF path_type = "file" THEN Ok(StrV(Key(input_pars.path.ext)))
    ELSE IF input_pars.path.slash THEN Fail(Err("NonfileURLError"))
    ELSE Fail(Err("AttributeError"))

Interpreted(exc, slf) == [exc |-> exc, slf |-> slf]

\* lines 139-193
_interpret_input_pars(slf, input_pars) ==
    IF ~input_pars.has_path THEN Interpreted(Err("MissingLocationKeyError"), slf)
    ELSE
    LET path_type == PathType(input_pars) IN
    IF path_type = "None"
    THEN Interpreted(Err("UndeterminableLocationTypeError"), slf)
    ELSE IF path_type \notin {"file", "dir", "url"}
    THEN Interpreted(Err("TypeError"), slf)
    ELSE
    LET file_type == FileType(input_pars, path_type) IN
    IF file_type.exc # NoExc THEN Interpreted(file_type.exc, slf)
    ELSE
    LET s1 == [slf EXCEPT !.path = input_pars.path,
                          !.path_type = path_type,
                          !.file_type = file_type.val.keys[1].name,
                          !.test_size = input_pars.test_size,
                          !.generator = input_pars.generator]
    IN
    IF input_pars.generator /\ ~input_pars.batch_size_ok
    THEN Interpreted(Err("NonIntegerBatchSizeError"), s1)
    ELSE Interpreted(NoExc,
            [s1 EXCEPT !.has_batch_size = input_pars.generator,
                       !.batch_size = IF input_pars.generator
                                      THEN input_pars.batch_size ELSE 0,
                       !._names = input_pars.names,
                       !.split_outputs = input_pars.split_outputs,
                       !.misc_outputs = input_pars.misc_outputs,
                       !.interpreted = TRUE])

-----------------------------------------------------------------------------
(* sklearn.model_selection.train_test_split *)

\* a string of one character is one sample, which leaves no train sample
Splittable(v) == v.kind \in {"arr", "list", "tuple", "str"}
\* ceil(q * n / Den)
NTest(q, n) == (q * n + Den - 1) \div Den
\* the samples in the order the shuffle put them
RECURSIVE Shuffled(_, _)
Shuffled(perm, n) ==
    IF perm = <<>> THEN <<>>
    ELSE IF Head(perm) <= n THEN <<Head(perm)>> \o Shuffled(Tail(perm), n)
    ELSE Shuffled(Tail(perm), n)
Pick(v, idx) ==
    Val(IF v.kind = "arr" THEN "arr" ELSE "list", 0,
        [i \in 1..Len(idx) |-> v.items[idx[i]]], <<>>, v.trail)
\* the flat list x1_train, x1_test, ..., xk_train, xk_test
train_test_split(arrays, q, perm) ==
    IF arrays = <<>> THEN Fail(Err("ValueError"))
    ELSE IF \E i \in 1..Len(arrays) : ~Splittable(arrays[i])
    THEN Fail(Err("TypeError"))
    ELSE
    LET n == LenOf(arrays[1])
        n_test == NTest(q, n)
        order == Shuffled(perm, n)
        test == SubSeq(order, 1, n_test)
        train == SubSeq(order, n_test + 1, n)
    IN
    IF \E i \in 1..Len(arrays) : LenOf(arrays[i]) # n \/ arrays[i].kind = "str"
    THEN Fail(Err("ValueError"))
    ELSE IF q <= 0 \/ q >= Den \/ n - n_test <= 0 THEN Fail(Err("ValueError"))
    ELSE Ok(ListV([j \in 1..(2 * Len(arrays)) |->
                    IF j % 2 = 1 THEN Pick(arrays[(j + 1) \div 2], train)
                    ELSE Pick(arrays[j \div 2], test)]))

-----------------------------------------------------------------------------
(* DataLoader._split_data *)

\* outputs[n]
GetItem(v, sel) ==
    IF v.kind = "dict"
    THEN IF sel.is_key /\ \E i \in 1..Len(v.keys) : v.keys[i] = sel.key
         THEN Ok(v.items[CHOOSE i \in 1..Len(v.keys) : v.keys[i] = sel.key])
         ELSE Fail(Err("KeyError"))
    ELSE IF v.kind \in {"tuple", "list", "arr"}
    THEN IF sel.is_key THEN Fail(Err("TypeError"))
         ELSE IF sel.idx < Len(v.items) THEN Ok(v.items[sel.idx + 1])
         ELSE Fail(Err("IndexError"))
    ELSE Fail(Err("TypeError"))

\* tuple(outputs[n] for n in sels): the first failing lookup raises
GetItems(v, sels) ==
    LET bad == {i \in 1..Len(sels) : GetItem(v, sels[i]).exc # NoExc} IN
    IF bad # {}
    THEN Fail(GetItem(v, sels[CHOOSE j \in bad : \A k \in bad : j <= k]).exc)
    ELSE Ok(TupleV([i \in 1..Len(sels) |-> GetItem(v, sels[i]).val]))

\* lines 400-408; val is None where processed_data stays unassigned
Selection(slf) ==
    IF ~slf.split_outputs.none
    THEN IF ~slf._names.none \/ slf.intermediate_output.kind \in {"dict", "tuple"}
         THEN LET g == GetItems(slf.intermediate_output, slf.split_outputs.l) IN
              [exc |-> g.exc, bound |-> TRUE, val |-> g.val]
         ELSE [exc |-> NoExc, bound |-> FALSE, val |-> None]
    ELSE [exc |-> NoExc, bound |-> TRUE, val |-> slf.intermediate_output]

\* [x + suffix for x in self.split_outputs]
AllKeys(sels) == \A i \in 1..Len(sels) : sels[i].is_key
NewNames(sels, suffix) == [i \in 1..Len(sels) |-> Suffixed(sels[i].key, suffix)]
\* dict(zip(new_names, part))
Named(names, part) ==
    LET n == Min(Len(names), Len(part.items)) IN
    DictV(SubSeq(names, 1, n), SubSeq(part.items, 1, n))

\* lines 429-440
Misc(slf) ==
    IF slf.misc_outputs.none THEN Ok(ListV(<<>>))
    ELSE LET g == GetItems(slf.intermediate_output, slf.misc_outputs.l) IN
         IF g.exc # NoExc THEN g
         ELSE IF ~slf._names.none /\ slf.intermediate_output.kind = "dict"
         THEN Ok(DictV([i \in 1..Len(slf.misc_outputs.l) |-> slf.misc_outputs.l[i].key],
                       g.val.items))
         ELSE g

SplitDone(exc, split, slf) == [exc |-> exc, split |-> split, slf |-> slf]

\* lines 421-428
Partition(slf, flat, l, from, to, suffix) ==
    LET part == ListV(SubSeq(flat.items, from, to)) IN
    IF ~slf._names.none /\ slf.intermediate_output.kind = "dict"
    THEN Named(NewNames(slf.split_outputs.l, suffix), part)
    ELSE part

\* lines 399-447
_split_data(slf, env, perm) ==
    LET sel == Selection(slf) IN
    IF sel.exc # NoExc THEN SplitDone(sel.exc, FALSE, slf)
    ELSE IF slf.test_size.none THEN SplitDone(Err("TypeError"), FALSE, slf)
    ELSE IF slf.test_size.q <= 0 THEN SplitDone(NoExc, FALSE, slf)
    ELSE
    LET r == load_callable_from_dict(validation_split_function.ref, env) IN
    IF r.exc # NoExc THEN SplitDone(r.exc, FALSE, slf)
    ELSE IF ~sel.bound THEN SplitDone(Err("UnboundLocalError"), FALSE, slf)
    ELSE IF ~HasLen(sel.val) \/ ~Iterable(sel.val)
    THEN SplitDone(Err("TypeError"), FALSE, slf)
    ELSE
    LET l == LenOf(sel.val)
        flat == train_test_split(IterOf(sel.val), slf.test_size.q, perm)
    IN
    IF flat.exc # NoExc THEN SplitDone(flat.exc, FALSE, slf)
    ELSE IF ~slf._names.none /\ slf.intermediate_output.kind = "dict"
            /\ (slf.split_outputs.none \/ ~AllKeys(slf.split_outputs.l))
    THEN SplitDone(Err("TypeError"), FALSE, slf)
    ELSE
    LET misc == Misc(slf) IN
    IF misc.exc # NoExc THEN SplitDone(misc.exc, FALSE, slf)
    ELSE SplitDone(NoExc, TRUE,
            [slf EXCEPT !.intermediate_output_split =
                TupleV(<< Partition(slf, flat.val, l, 1, l, "_train"),
                          Partition(slf, flat.val, l, l + 1, Len(flat.val.items), "_test"),
                          misc.val >>)])

-----------------------------------------------------------------------------
(* DataLoader.__init__ and DataLoader.get_data *)

Built(exc, slf) == [exc |-> exc, slf |-> slf]
LoaderSelfOf(slf) ==
    LoaderSelf(slf.path, slf.path_type, slf.file_type, slf.generator, slf.batch_size)
ShaperSelfOf(slf) == ShaperSelf(slf.has_batch_size, slf.batch_size)

\* lines 129-132
ShapeSplit(slf, output) ==
    LET parts == slf.intermediate_output_split.items
        train == _interpret_output(ShaperSelfOf(slf), output, parts[1])
        test == _interpret_output(ShaperSelfOf(slf), output, parts[2])
    IN
    IF train.exc # NoExc
    THEN Built(train.exc, [slf EXCEPT !.writes = train.writes])
    ELSE IF test.exc # NoExc
    THEN Built(test.exc, [slf EXCEPT !.writes = train.writes \o test.writes])
    ELSE Built(NoExc,
            [slf EXCEPT !.writes = train.writes \o test.writes,
                        !.final_output_split =
                            TupleV(<<train.val, test.val>> \o IterOf(parts[3]))])

\* line 134
ShapeWhole(slf, output) ==
    LET whole == _interpret_output(ShaperSelfOf(slf), output, slf.intermediate_output) IN
    Built(whole.exc, [slf EXCEPT !.writes = whole.writes,
                                 !.final_output = whole.val])

\* lines 108-115
InputStage(g) == _interpret_input_pars(NewSelf, g.input_pars)

\* lines 116-127; g.processed is what the preprocessor makes of the loaded
\* data; self.names (line 126) is an attribute the instance never gets
LoadStage(i, g) ==
    IF i.exc # NoExc THEN Built(i.exc, i.slf)
    ELSE LET ld == _load_data(LoaderSelfOf(i.slf), g.loader, g.env) IN
         IF ld.exc # NoExc THEN Built(ld.exc, [i.slf EXCEPT !.loaded = ld])
         ELSE Built(IF ~i.slf._names.none THEN Err("AttributeError") ELSE NoExc,
                    [i.slf EXCEPT !.loaded = ld,
                                  !.intermediate_output = g.processed])

\* line 128
SplitStage(b, g, perm) ==
    IF b.exc # NoExc THEN SplitDone(b.exc, FALSE, b.slf)
    ELSE _split_data(b.slf, g.env, perm)

\* lines 128-134
ShapeStage(sp, g) ==
    IF sp.exc # NoExc THEN Built(sp.exc, sp.slf)
    ELSE IF sp.split THEN ShapeSplit(sp.slf, g.output)
    ELSE ShapeWhole(sp.slf, g.output)

\* (*a, *b, *c)
Spread3(t) ==
    IF Len(t.items) < 3 THEN Fail(Err("IndexError"))
    ELSE IF \E i \in 1..3 : ~Iterable(t.items[i]) THEN Fail(Err("TypeError"))
    ELSE Ok(TupleV(IterOf(t.items[1]) \o IterOf(t.items[2]) \o IterOf(t.items[3])))

\* lines 372-389
get_data(slf, intermediate) ==
    IF intermediate \/ IsNone(slf.final_output)
    THEN IF ~IsNone(slf.intermediate_output_split)
         THEN Spread3(slf.intermediate_output_split)
         ELSE IF slf.intermediate_output.kind = "dict"
         THEN Ok(TupleV(slf.intermediate_output.items))
         ELSE Ok(slf.intermediate_output)
    ELSE IF ~IsNone(slf.final_output_split)
    THEN Spread3(slf.final_output_split)
    ELSE Ok(slf.final_output)

-----------------------------------------------------------------------------
(* The constructor's arguments *)

SplitRows == 4
Perms ==
    {p \in [1..SplitRows -> 1..SplitRows] :
        \A i, j \in 1..SplitRows : i # j => p[i] # p[j]}

Given(input_pars, loader, processed, output, env) ==
    [input_pars |-> input_pars, loader |-> loader, processed |-> processed,
     output |-> output, env |-> env]

Table == Arr2(100, SplitRows, MaxCols)
Column(base) == Arr1(base, SplitRows)
Processed ==
    {Table, Column(0), IntV(7),
     TupleV(<<Column(0), Column(200)>>),
     TupleV(<<Column(0), Column(200), Column(400)>>),
     DictV(<<KeyA, KeyB>>, <<Column(0), Column(200)>>),
     DictV(<<KeyA, KeyB, KeyC>>, <<Column(0), Column(200), Column(400)>>)}
TestSizes == {NoSize} \cup {Size(q) : q \in -1..(Den - 1)}
SplitOutputs ==
    {NoList, SomeList(<<IdxSel(0)>>), SomeList(<<IdxSel(0), IdxSel(1)>>),
     SomeList(<<KeySel(KeyA)>>), SomeList(<<KeySel(KeyA), KeySel(KeyB)>>)}
MiscOutputs == {NoList, SomeList(<<IdxSel(2)>>), SomeList(<<KeySel(KeyC)>>)}
Names == {NoList, SomeList(<<KeySel(KeyA), KeySel(KeyB), KeySel(KeyC)>>)}
CtorOutputs ==
    {NoOutput,
     Output(SomeInt(1), NoShape, NoPath, "None", 0),
     Output(NoInt, FlatShape(<<MaxCols>>), StrPath("out"), "None", 0),
     Output(NoInt, NoShape, NoPath, "tfDataset", 0),
     Output(SomeInt(1), NoShape, NoPath, "generic_generator", 0)}
CtorLoaders ==
    {Loader(NoLoader, FALSE, 0), Loader(PairLoader("user::load", {}), FALSE, 0)}
CtorEnv == LoadEnv(TRUE, TRUE, Table)

\* the configurations that vary the pipeline behind one loadable location
PipelineCases ==
    {Given(InputPars(TRUE, CsvFile, "None", "None", ts, g, TRUE, 2, nm, so, mo),
           ld, v, out, CtorEnv) :
        ts \in TestSizes, g \in BOOLEAN, nm \in Names, so \in SplitOutputs,
        mo \in MiscOutputs, ld \in CtorLoaders, v \in Processed,
        out \in CtorOutputs}
\* the configurations that vary the location and the loader
LocationCases ==
    {Given(InputPars(hp, path, pt, ft, Size(0), g, ok, 2, NoList, NoList, NoList),
           Loader(dl, FALSE, 0), Table, NoOutput, CtorEnv) :
        hp \in BOOLEAN,
        path \in {CsvFile, ImageDir, CsvUrl, DirUrl, Nowhere},
        pt \in {"None", "file", "dir", "url", "ftp"},
        ft \in {"None", ".csv"}, g \in BOOLEAN, ok \in BOOLEAN,
        dl \in {NoLoader, PairLoader("user::load", {}),
                RefLoader(Ref(TRUE, "user::load", FALSE, {}))}}

NoReturn == [called |-> FALSE, intermediate |-> FALSE, exc |-> NoExc, val |-> None]

-----------------------------------------------------------------------------
(* The instance: construction, then reads *)

CtorIdle ==
    /\ pc = "idle"
    /\ given = Given(InputPars(FALSE, Nowhere, "None", "None", NoSize, FALSE, TRUE,
                               0, NoList, NoList, NoList),
                     Loader(NoLoader, FALSE, 0), None, NoOutput, CtorEnv)
    /\ self = NewSelf
    /\ raised = NoExc
    /\ ret = NoReturn
ctorVars == <<pc, given, self, raised, ret>>

CtorInit ==
    /\ pc = "new"
    /\ \/ /\ given \in PipelineCases
          \* the generator flag is read only by the batch-generator format
          /\ given.output.format # "generic_generator" => ~given.input_pars.generator
       \/ given \in LocationCases
    /\ self = NewSelf
    /\ raised = NoExc
    /\ ret = NoReturn

\* the shuffles the split function can draw; it is called only for test_size > 0
Shuffles(g) ==
    IF ~g.input_pars.test_size.none /\ g.input_pars.test_size.q > 0
    THEN Perms ELSE {[i \in 1..SplitRows |-> i]}

\* DataLoader.__init__, lines 107-134, stage by stage
Construct ==
    /\ pc = "new"
    /\ \E perm \in Shuffles(given) :
       \E i \in {InputStage(given)} :
       \E ld \in {LoadStage(i, given)} :
       \E sp \in {SplitStage(ld, given, perm)} :
       \E built \in {ShapeStage(sp, given)} :
         /\ self' = built.slf
         /\ raised' = built.exc
         /\ pc' = IF built.exc = NoExc THEN "ready" ELSE "failed"
    /\ UNCHANGED <<given, ret>>

GetData ==
    /\ pc = "ready"
    /\ \E intermediate \in BOOLEAN :
         LET got == get_data(self, intermediate) IN
         ret' = [called |-> TRUE, intermediate |-> intermediate,
                 exc |-> got.exc, val |-> got.val]
    /\ UNCHANGED <<pc, given, self, raised>>

-----------------------------------------------------------------------------
(* Specifications *)

Init == CtorInit /\ ShapeIdle /\ LoadIdle
Next ==
    \/ Construct /\ UNCHANGED <<shapeVars, loadVars>>
    \/ GetData /\ UNCHANGED <<shapeVars, loadVars>>
Spec == Init /\ [][Next]_vars

InitShape == ShapeInit /\ LoadIdle /\ CtorIdle
NextShape == Shape /\ UNCHANGED <<loadVars, ctorVars>>
SpecShape == InitShape /\ [][NextShape]_vars

InitLoad == LoadInit /\ ShapeIdle /\ CtorIdle
NextLoad == Load /\ UNCHANGED <<shapeVars, ctorVars>>
SpecLoad == InitLoad /\ [][NextLoad]_vars

-----------------------------------------------------------------------------
(* Claims about the constructor and get_data, checked under Spec *)

Constructed == pc \in {"ready", "failed"}
\* the constructor got as far as the split: the location was interpreted, the
\* loader ran, and no names were asked for
ReachedSplit ==
    /\ Constructed
    /\ self.loaded.called
    /\ given.input_pars.names.none
DidSplit == pc = "ready" /\ ~IsNone(self.intermediate_output_split)
ShapedWhole ==
    _interpret_output(ShaperSelfOf(self), given.output, self.intermediate_output)
Train == self.intermediate_output_split.items[1]
Test == self.intermediate_output_split.items[2]
MiscSlot == self.intermediate_output_split.items[3]
ShapedPart(part) == _interpret_output(ShaperSelfOf(self), given.output, part).val

\* the configurations C1 is about, among those in which the steps before the
\* split succeed and the shaping itself raises nothing
C1_Applies ==
    /\ ReachedSplit
    /\ given.input_pars.split_outputs.none
    /\ (given.input_pars.test_size.none \/ given.input_pars.test_size.q <= 0)
    /\ ShapedWhole.exc = NoExc
\* C1: with test_size None or <= 0 the constructor performs no split and
\* completes: intermediate_output_split and final_output_split stay None and
\* final_output is the shaping of the whole intermediate value.
C1_NoSplitCompletes ==
    C1_Applies =>
        /\ pc = "ready"
        /\ IsNone(self.intermediate_output_split)
        /\ IsNone(self.final_output_split)
        /\ self.final_output = ShapedWhole.val

C3_Applies == DidSplit /\ ret.called /\ ~ret.intermediate
\* C3: after a construction that split, get_data(intermediate=False) returns
\* the shaped train partition, the shaped test partition and the unshaped
\* misc items, in that order (flattened as in lines 383-388, or as the
\* triple itself), not the unshaped intermediate partitions.
C3_GetDataReturnsShapedSplit ==
    C3_Applies =>
        /\ ret.exc = NoExc
        /\ \/ ret.val = TupleV(IterOf(ShapedPart(Train)) \o IterOf(ShapedPart(Test))
                               \o IterOf(MiscSlot))
           \/ ret.val = TupleV(<<ShapedPart(Train), ShapedPart(Test)>>
                               \o IterOf(MiscSlot))

ItemSet(v) == {v.items[i] : i \in 1..Len(v.items)}
\* tr and te are the train and test portions of x for the fraction q / Den
IsSplitOf(tr, te, x, q) ==
    /\ Len(tr.items) + Len(te.items) = Len(x.items)
    /\ Len(te.items) = NTest(q, Len(x.items))
    /\ ItemSet(tr) \cup ItemSet(te) = ItemSet(x)
SplitSels == given.input_pars.split_outputs.l
C4_Applies ==
    /\ DidSplit
    /\ ~given.input_pars.split_outputs.none
    /\ Len(SplitSels) >= 1
\* C4: a split over the k >= 1 sub-outputs x1..xk named by split_outputs
\* yields a train partition of exactly k elements, the train portions of
\* x1..xk in order, and a test partition of the k test portions in order;
\* for a mapping source the partitions are keyed n_train and n_test.
C4_TrainThenTestPortions ==
    C4_Applies =>
        /\ Len(Train.items) = Len(SplitSels)
        /\ Len(Test.items) = Len(SplitSels)
        /\ \A i \in 1..Len(SplitSels) :
              IsSplitOf(Train.items[i], Test.items[i],
                        GetItem(self.intermediate_output, SplitSels[i]).val,
                        self.test_size.q)
        /\ self.intermediate_output.kind = "dict" =>
              /\ Train.kind = "dict"
              /\ Train.keys = NewNames(SplitSels, "_train")
              /\ Test.kind = "dict"
              /\ Test.keys = NewNames(SplitSels, "_test")

\* the rows of a partition: its elements, or the rows of its only element
RowsOf(part) ==
    IF Len(part.items) = 1 /\ part.items[1].kind = "arr"
          /\ part.items[1].trail = self.intermediate_output.trail
    THEN part.items[1] ELSE part
C5_Applies ==
    /\ ReachedSplit
    /\ given.processed.kind = "arr"
    /\ given.input_pars.split_outputs.none
    /\ given.input_pars.misc_outputs.none
    /\ ~given.input_pars.test_size.none
    /\ given.input_pars.test_size.q > 0
    /\ given.output = NoOutput
\* C5: a single array of N rows (Case 0), split with split_outputs unset and
\* a fraction 0 < f < 1, is split as one sub-output: train and test are made
\* of its rows, share none, together hold every row, and test holds
\* ceil(f * N) of them.
C5_ArraySplitByRows ==
    C5_Applies =>
        /\ DidSplit
        /\ IsSplitOf(RowsOf(Train), RowsOf(Test), self.intermediate_output,
                     self.test_size.q)

MiscSels == given.input_pars.misc_outputs.l
MiscValues == [i \in 1..Len(MiscSels) |->
                 GetItem(self.intermediate_output, MiscSels[i]).val]
C6_Applies == DidSplit /\ ~given.input_pars.misc_outputs.none
\* C6: after a split with misc_outputs set, the misc slot holds the named
\* sub-outputs' values unchanged, as a mapping keyed by those names when the
\* source is a mapping and positionally otherwise, and final_output_split
\* carries the same values (not their keys) after the shaped train and test.
C6_MiscCarriedThrough ==
    C6_Applies =>
        /\ MiscSlot.items = MiscValues
        /\ IF self.intermediate_output.kind = "dict"
           THEN /\ MiscSlot.kind = "dict"
                /\ MiscSlot.keys = [i \in 1..Len(MiscSels) |-> MiscSels[i].key]
           ELSE MiscSlot.kind \in {"tuple", "list"}
        /\ SubSeq(self.final_output_split.items, 3,
                  Len(self.final_output_split.items)) = MiscValues

-----------------------------------------------------------------------------
(* Claims about loader selection, checked under SpecLoad *)

ExplicitFn ==
    IF lloader.data_loader.form = "tuple" THEN lloader.data_loader.fn
    ELSE lloader.data_loader.ref.uri
ExplicitArgs ==
    IF lloader.data_loader.form = "tuple" THEN lloader.data_loader.args
    ELSE IF lloader.data_loader.ref.has_arg THEN lloader.data_loader.ref.arg
    ELSE {}
C2_Applies ==
    /\ lpc = "done"
    /\ \/ lloader.data_loader.form = "tuple"
       \/ lloader.data_loader.form = "dict" /\ lloader.data_loader.ref.has_uri
    /\ ExplicitFn \in Callables
\* C2: an explicit loader whose reference names an invocable function, given
\* as a (function, args) pair or as a mapping with a "uri" (with or without
\* static arguments), is selected without any error and without the default
\* table, and it is the function called on the location, with its static
\* arguments.
C2_ExplicitLoaderWins ==
    C2_Applies =>
        /\ lres.sel.exc = NoExc
        /\ lres.sel.fn = ExplicitFn
        /\ ~lres.sel.defaults
        /\ lres.sel.largs = Bound(ExplicitArgs)
        /\ lself.path_type = "file" =>
              /\ lres.exc = NoExc
              /\ lres.called
              /\ lres.fn = ExplicitFn
              /\ lres.loc = lself.path
              /\ ExplicitArgs \subseteq lres.kw

-----------------------------------------------------------------------------
(* Claims about the shaper, checked under SpecShape *)

ShapeDone == spc = "done"
\* the value the shaper classifies (after line 243) and its Case
Entered == Unwrap(soutput, sinput).val
EnteredCase == CaseOf(Entered)
\* the sub-outputs of a value: itself (Case 0) or its elements or values
SubOutputs(case, v) == IF case = 0 THEN <<v>> ELSE v.items

C7_Applies ==
    /\ ShapeDone
    /\ soutput = NoOutput
    /\ EnteredCase \in 0..4
\* C7: with format absent and out_max_len, shape and path unset, shaping a
\* value of any of the five Cases returns it with its container kind, its
\* sub-outputs, their order, its keys and its elements unchanged.
C7_ShapingKeepsStructure ==
    C7_Applies => sres.exc = NoExc /\ sres.val = sinput

\* (C8 is stated for m >= 0 and format absent, where the result keeps the
\* sub-outputs apart)
C8_Applies ==
    /\ ShapeDone
    /\ ~soutput.out_max_len.none
    /\ soutput.out_max_len.v >= 0
    /\ soutput.format = "None"
    /\ EnteredCase \in {0, 1, 3}
    /\ sres.exc = NoExc
\* C8: with out_max_len = m, every sub-output with a length L comes out with
\* length m when L >= m and L when L < m, each on its own, also when another
\* sub-output of the same value cannot be sliced.
C8_EachSubOutputTruncated ==
    C8_Applies =>
        LET before == SubOutputs(EnteredCase, Entered)
            after == SubOutputs(EnteredCase, sres.val)
        IN /\ Len(after) = Len(before)
           /\ \A i \in 1..Len(before) :
                Sliceable(before[i]) =>
                    Len(after[i].items)
                        = Min(Len(before[i].items), soutput.out_max_len.v)

\* Case 0 pairs the value with the declaration, Case 1 and 3 pair the
\* declarations with the sub-outputs by position
Declared(case, shape) == IF case = 0 THEN <<shape.dims[1]>> ELSE shape.dims
Paired(case, shape, v) ==
    {i \in 1..Min(Len(Declared(case, shape)), Len(SubOutputs(case, v))) :
        HasShape(SubOutputs(case, v)[i])}
C9_Applies ==
    /\ ShapeDone
    /\ ~soutput.shape.none
    /\ EnteredCase \in {0, 1, 3}
    /\ soutput.shape.nested = (EnteredCase # 0)
\* C9: with shape set, for Case 0, 1 or 3: no OutputShapeError is raised when
\* every sub-output that exposes a shape has the declared trailing
\* dimensions, and OutputShapeError(expected, actual trailing dimensions) is
\* raised when one has not.
C9_ShapeValidated ==
    C9_Applies =>
        LET decl == Declared(EnteredCase, soutput.shape)
            outs == SubOutputs(EnteredCase, Entered)
            bad == {i \in Paired(EnteredCase, soutput.shape, Entered) :
                        decl[i] # outs[i].trail}
        IN IF bad = {} THEN sres.exc.type # "OutputShapeError"
           ELSE \E i \in bad :
                  sres.exc = OutputShapeError(FlatDim(decl[i]), FlatDim(outs[i].trail))

IsCase2(v) == v.kind = "tuple" /\ v.items # <<>> /\ v.items[1].kind = "dict"
IsCase4(v) == v.kind = "dict" /\ v.items # <<>> /\ v.items[1].kind = "dict"
C10_Applies ==
    /\ ShapeDone
    /\ IsCase2(sinput) \/ IsCase4(sinput)
    /\ soutput.format \in {"tfDataset", "tchDataset"}
\* the single-path write of lines 296-310 fails
WriteFails == soutput.path.kind = "str" /\ ~CanWrite(soutput.path.s)

\* C10, as stated: a Case 2 or Case 4 value shaped with format tfDataset or
\* tchDataset raises the "not supported" error and builds no dataset,
\* whatever out_max_len and shape are and whether or not path is set.
C10_AlwaysUnsupported ==
    C10_Applies => sres.exc = Unsupported /\ IsNone(sres.val)

\* C10, as amended: a Case 2 or Case 4 value shaped with format tfDataset or
\* tchDataset never yields a dataset; it raises the "not supported" error
\* whatever out_max_len and shape are, unless path is a string and the write
\* to it fails, in which case the write's error is raised instead.
C10_UnsupportedUnlessWriteFails ==
    C10_Applies =>
        /\ IsNone(sres.val)
        /\ sres.exc = IF WriteFails THEN Err("OSError") ELSE Unsupported

\* C10, witness: a mapping of mappings, format tchDataset, out_max_len and
\* shape set, written to its path, and then refused
C10_Witness ==
    /\ C10_Applies
    /\ IsCase4(sinput)
    /\ soutput.format = "tchDataset"
    /\ ~soutput.out_max_len.none
    /\ ~soutput.shape.none
    /\ soutput.path = StrPath("out")
    /\ sres.exc = Unsupported
    /\ sres.writes # <<>>

====
